---- MODULE Spec2Model ----
(***************************************************************************)
(* Address resolution engine of the SF office vacancy API                  *)
(* (src/apps/api/main.py): text normalisation, the search index built at   *)
(* startup, the similarity score, the ranking and lookup handlers and the  *)
(* delegate to the model-generation bridge (src/apps/bridge/main.py).      *)
(*                                                                         *)
(* Text is a sequence of one-character strings.  An optional value (a JSON *)
(* null, Python's None) is the empty tuple None; a present value x is      *)
(* Some(x) = <<x>>.                                                         *)
(***************************************************************************)
EXTENDS Integers, Sequences, FiniteSets, TLC

\* --------------------------------------------------------------- bounds
\* longest string handed to the scorer in the pure-function runs
MaxLen == 4
\* longest raw text handed to the normaliser in the pure-function runs
MaxRaw == 4
\* longest dataset drawn from CorePool
MaxFeatures == 6
\* longest dataset drawn from the whole FeaturePool
MaxShort == 3

\* ------------------------------------------------------- generic helpers
None == <<>>
Some(x) == <<x>>

Min(x, y) == IF x <= y THEN x ELSE y

RECURSIVE SeqsUpTo(_, _)
\* all sequences over S of length at most n
SeqsUpTo(S, n) ==
    IF n = 0 THEN {<<>>}
    ELSE LET shorter == SeqsUpTo(S, n - 1)
         IN  shorter \cup {Append(s, x) : s \in {t \in shorter : Len(t) = n - 1}, x \in S}

RECURSIVE Gcd(_, _)
Gcd(x, y) == IF y = 0 THEN x ELSE Gcd(y, x % y)

\* ------------------------------------------------------------ characters
\* str.lower() on one character: ASCII upper case to lower case; the Kelvin
\* sign U+212A lowers to the ASCII letter k; U+0130 lowers to the two
\* characters i, U+0307; everything else in the alphabet is unchanged.
LowerChar(c) ==
    CASE c = "A" -> <<"a">>
      [] c = "B" -> <<"b">>
      [] c = "C" -> <<"c">>
      [] c = "M" -> <<"m">>
      [] c = "U+212A" -> <<"k">>
      [] c = "U+0130" -> <<"i", "U+0307">>
      [] OTHER -> <<c>>

\* the character class [a-z0-9] of the pattern in _normalize
LowerAlnum == {"a", "b", "c", "i", "k", "m", "1", "2", "7", "9"}

\* the characters \s matches and str.strip() removes
Whitespace == {" ", "U+0009"}

RECURSIVE Lower(_)
\* text.lower()
Lower(text) ==
    IF text = <<>> THEN <<>>
    ELSE LowerChar(Head(text)) \o Lower(Tail(text))

RECURSIVE SubRuns(_, _)
\* re.sub(<class>+, " ", text): every maximal run of characters of the class
\* is replaced by one space
SubRuns(class, text) ==
    IF text = <<>> THEN <<>>
    ELSE IF Head(text) \in class
         THEN IF Len(text) > 1 /\ text[2] \in class
              THEN SubRuns(class, Tail(text))
              ELSE <<" ">> \o SubRuns(class, Tail(text))
         ELSE <<Head(text)>> \o SubRuns(class, Tail(text))

RECURSIVE LStrip(_)
\* leading whitespace removed
LStrip(text) ==
    IF text # <<>> /\ Head(text) \in Whitespace THEN LStrip(Tail(text)) ELSE text

RECURSIVE RStrip(_)
\* trailing whitespace removed
RStrip(text) ==
    IF text # <<>> /\ text[Len(text)] \in Whitespace
    THEN RStrip(SubSeq(text, 1, Len(text) - 1))
    ELSE text

\* the call of .strip() left out
StripNothing(text) == text

\* str.strip()
Strip(text) == RStrip(LStrip(text))

\* every character that can occur in a text of the model
AllChars ==
    LowerAlnum \cup Whitespace \cup {"A", "B", "C", "M", "-", "U+212A", "U+0130", "U+0307"}

\* _normalize(text)
Normalize(text) ==
    LET cleaned == SubRuns(AllChars \ LowerAlnum, Lower(text))
    IN  Strip(SubRuns(Whitespace, cleaned))

\* `str(properties.get(key) or "").strip()` for one address component
Component(opt) == Strip(IF opt = None THEN <<>> ELSE opt[1])

RECURSIVE Join(_)
\* " ".join(parts)
Join(parts) ==
    IF parts = <<>> THEN <<>>
    ELSE IF Len(parts) = 1 THEN parts[1]
    ELSE parts[1] \o <<" ">> \o Join(Tail(parts))

\* format_address(properties)
FormatAddress(props) ==
    LET number == Component(props.number)
        street == Component(props.street)
        postcode == Component(props.postcode)
    IN  Join(SelectSeq(<<number, street, postcode>>, LAMBDA part : part # <<>>))

\* ------------------------------------------------------ similarity score
RECURSIVE RunLen(_, _, _, _, _, _)
\* length of the common run of a[i..ahi) and b[j..bhi) (0-based, half-open)
RunLen(a, b, i, ahi, j, bhi) ==
    IF i < ahi /\ j < bhi /\ a[i + 1] = b[j + 1]
    THEN 1 + RunLen(a, b, i + 1, ahi, j + 1, bhi)
    ELSE 0

\* SequenceMatcher.find_longest_match(alo, ahi, blo, bhi) with no junk (the
\* autojunk heuristic only applies when len(b) >= 200): the longest block
\* a[i..i+k) = b[j..j+k); of all longest blocks the one starting earliest in
\* a, and of those the one starting earliest in b; <<alo, blo, 0>> when the
\* ranges share no character.
FindLongestMatch(a, b, alo, ahi, blo, bhi) ==
    LET blocks == {<<i, j, RunLen(a, b, i, ahi, j, bhi)>> :
                       i \in alo .. ahi - 1, j \in blo .. bhi - 1}
        longest == {m \in blocks : m[3] > 0 /\ \A r \in blocks : r[3] <= m[3]}
    IN  IF longest = {} THEN <<alo, blo, 0>>
        ELSE CHOOSE m \in longest :
                 \A r \in longest : m[1] < r[1] \/ (m[1] = r[1] /\ m[2] <= r[2])

RECURSIVE Matches(_, _, _, _, _, _)
\* sum of the sizes of SequenceMatcher.get_matching_blocks(): the longest
\* block, then the same search left of it and right of it
Matches(a, b, alo, ahi, blo, bhi) ==
    LET m == FindLongestMatch(a, b, alo, ahi, blo, bhi)
        i == m[1]
        j == m[2]
        k == m[3]
    IN  IF k = 0 THEN 0
        ELSE k + Matches(a, b, alo, i, blo, j) + Matches(a, b, i + k, ahi, j + k, bhi)

\* a score is the fraction <<numerator, denominator>> in lowest terms
Fraction(n, d) == LET g == Gcd(n, d) IN <<n \div g, d \div g>>

\* the ratio without the factor 2
CalculateRatioUndoubled(matches, length) ==
    IF length > 0 THEN Fraction(matches, length) ELSE <<1, 1>>

\* _calculate_ratio(matches, length): 2.0 * matches / length, 1.0 for length 0
CalculateRatio(matches, length) ==
    IF length > 0 THEN Fraction(2 * matches, length) ELSE <<1, 1>>

\* the ratio taken over the first string alone
RatioOverFirst(a, b) == CalculateRatio(Matches(a, b, 0, Len(a), 0, Len(b)), 2 * Len(a))

\* SequenceMatcher(None, a, b).ratio()
Ratio(a, b) == CalculateRatio(Matches(a, b, 0, Len(a), 0, Len(b)), Len(a) + Len(b))

\* _score_match(query, candidate)
ScoreMatch(query, candidate) == Ratio(query, candidate)

\* float comparison of two scores
ScoreGt(s, t) == s[1] * t[2] > t[1] * s[2]

\* ------------------------------------------------------------ dictionaries
\* dict.get(key, default)
DictGet(d, key, default) == IF key \in DOMAIN d THEN d[key] ELSE default

\* d[key] = value
DictSet(d, key, value) ==
    [k \in DOMAIN d \cup {key} |-> IF k = key THEN value ELSE d[k]]

\* ------------------------------------------------------------ the dataset
\* a feature's properties dict: every key is optional
MkProps(id, number, street, postcode, height, vacant) ==
    [id |-> id, number |-> number, street |-> street, postcode |-> postcode,
     height |-> height, Percentage_vacant |-> vacant]

\* "1 Ab" with id B1
FeatureA ==
    [properties |-> Some(MkProps(Some(<<"B", "1">>), Some(<<"1">>), Some(<<"A", "b">>),
                                 None, Some(10), Some(5))),
     geometry |-> "polygonA"]

\* "ab" with id b1: the id of FeatureA in another case
FeatureB ==
    [properties |-> Some(MkProps(Some(<<"b", "1">>), None, Some(<<"a", "b">>),
                                 Some(<<" ">>), None, None)),
     geometry |-> "polygonB"]

\* "1 AB" with id B1: another record with the id and the normalized address
\* of FeatureA
FeatureC ==
    [properties |-> Some(MkProps(Some(<<"B", "1">>), Some(<<" ", "1">>), Some(<<"A", "B", " ">>),
                                 None, Some(20), None)),
     geometry |-> "polygonC"]

\* "-" without an id: its normalized address is empty
FeatureD ==
    [properties |-> Some(MkProps(None, None, Some(<<"-">>), None, None, Some(0))),
     geometry |-> "polygonD"]

\* a feature whose "properties" member is null
FeatureNull == [properties |-> None, geometry |-> "polygonE"]

CorePool == {FeatureA, FeatureB, FeatureC}
FeaturePool == CorePool \cup {FeatureD, FeatureNull}

FeatureLists == SeqsUpTo(CorePool, MaxFeatures) \cup SeqsUpTo(FeaturePool, MaxShort)

\* what DATA_FILE can hold: nothing readable, a document without "features",
\* or a document with a feature list
DataFiles ==
    {None, Some([type |-> "FeatureCollection"])}
        \cup {Some([type |-> "FeatureCollection", features |-> fs]) : fs \in FeatureLists}

\* the query strings and ids the clients send
Queries ==
    { <<>>, <<" ">>, <<"-", " ">>, <<"1", " ", "a", "b">>, <<"A", "B">>,
      <<"b", "a">>, <<"9">> }

Ids == { <<"B", "1">>, <<"b", "1">>, <<"B", "2">>, <<>> }

\* what the bridge can do with one POST /generate
BridgeStatuses == {200, 422, 500}
BridgeBodies == {"model_json", "other_json", "not_json"}
UrlopenOutcomes ==
    {[kind |-> "connect_failed"], [kind |-> "response_timeout"]}
        \cup {[kind |-> "http", status |-> s, body |-> b] :
                  s \in BridgeStatuses, b \in BridgeBodies}

\* ------------------------------------------------------------------ state
VARIABLES
    dataFile,     \* the content of DATA_FILE on disk
    phase,        \* "starting", "serving", or "failed" (startup raised)
    DATA_CACHE,   \* the module-level dict
    loop,         \* what the event-loop thread does: "idle"; "urlopen" while
                  \* generate_model sits in the blocking urlopen call; "send"
                  \* while it writes the response of the handler that returned
    bridgeCalls,  \* POSTs sent to the bridge by the generate_model in hand
    scorerCalls,  \* the <<query, candidate>> pairs the last handler scored
    response,     \* the last response sent to a client
    fn,           \* pure-function runs: the function applied
    arg1,         \* pure-function runs: first argument
    arg2,         \* pure-function runs: second argument
    out1,         \* pure-function runs: first result
    out2,         \* pure-function runs: second result
    pc            \* pure-function runs: "idle", "call", "again", "done"

vars ==
    <<dataFile, phase, DATA_CACHE, loop, bridgeCalls, scorerCalls, response,
      fn, arg1, arg2, out1, out2, pc>>

serverVars == <<dataFile, phase, DATA_CACHE, loop, bridgeCalls, scorerCalls, response>>
pureVars == <<fn, arg1, arg2, out1, out2, pc>>

NoResponse == [op |-> "none", status |-> 0]

\* ---------------------------------------------------------------- startup
\* _load_data(): the parsed document, or an exception when the file cannot
\* be read
LoadData(file) ==
    IF file = None THEN [raised |-> TRUE] ELSE [raised |-> FALSE, value |-> file[1]]

\* one iteration of the loop of _build_search_index
IndexEntry(feature) ==
    LET props == feature.properties[1]
        address == FormatAddress(props)
    IN  [feature |-> feature, address |-> address,
         normalized_address |-> Normalize(address)]

\* _build_search_index(features): format_address raises AttributeError on a
\* feature whose "properties" is null, and then no index is returned
BuildSearchIndex(features) ==
    IF \E i \in 1 .. Len(features) : features[i].properties = None
    THEN [raised |-> TRUE]
    ELSE [raised |-> FALSE,
          value |-> [i \in 1 .. Len(features) |-> IndexEntry(features[i])]]

\* startup_event(): the assignments to DATA_CACHE in program order; an
\* exception leaves the assignments made before it
StartupEvent ==
    /\ phase = "starting"
    /\ LET loaded == LoadData(dataFile)
       IN  IF loaded.raised
           THEN /\ phase' = "failed"
                /\ UNCHANGED DATA_CACHE
           ELSE LET data == loaded.value
                    features == DictGet(data, "features", <<>>)
                    cache1 == DictSet(DATA_CACHE, "data", data)
                    cache2 == DictSet(cache1, "features", features)
                    built == BuildSearchIndex(features)
                IN  IF built.raised
                    THEN /\ phase' = "failed"
                         /\ DATA_CACHE' = cache2
                    ELSE /\ phase' = "serving"
                         /\ DATA_CACHE' = DictSet(cache2, "search_index", built.value)
    /\ UNCHANGED <<dataFile, loop, bridgeCalls, scorerCalls, response, pureVars>>

\* --------------------------------------------------------------- handlers
\* the event loop hands a request to its handler: the application has
\* started and the loop thread is not inside another handler
CanHandle == phase = "serving" /\ loop = "idle"

\* health_check()
HealthCheck ==
    /\ CanHandle
    /\ response' = [op |-> "health", status |-> 200,
                    body |-> [ok |-> TRUE,
                              features |-> Len(DictGet(DATA_CACHE, "features", <<>>))]]
    /\ scorerCalls' = {}
    /\ loop' = "send"
    /\ UNCHANGED <<dataFile, phase, DATA_CACHE, bridgeCalls, pureVars>>

\* _extract_match_payload(entry, score)
ExtractMatchPayload(entry, score) ==
    LET props == entry.feature.properties[1]
    IN  [id |-> props.id, score |-> score, address |-> entry.address,
         number |-> props.number, street |-> props.street,
         postcode |-> props.postcode, height_m |-> props.height,
         vacancy_pct |-> props.Percentage_vacant]

RECURSIVE InsertDesc(_, _)
\* place item behind every element whose score is not lower than its own
InsertDesc(sorted, item) ==
    IF sorted = <<>> THEN <<item>>
    ELSE IF ScoreGt(item[1], Head(sorted)[1]) THEN <<item>> \o sorted
    ELSE <<Head(sorted)>> \o InsertDesc(Tail(sorted), item)

RECURSIVE InsertAsc(_, _)
\* place item behind every element whose score is not higher than its own
InsertAsc(sorted, item) ==
    IF sorted = <<>> THEN <<item>>
    ELSE IF ScoreGt(Head(sorted)[1], item[1]) THEN <<item>> \o sorted
    ELSE <<Head(sorted)>> \o InsertAsc(Tail(sorted), item)

RECURSIVE Reverse(_)
\* seq[::-1]
Reverse(seq) == IF seq = <<>> THEN <<>> ELSE Append(Reverse(Tail(seq)), Head(seq))

RECURSIVE SortAsc(_)
\* a stable ascending sort by score
SortAsc(scored) ==
    IF scored = <<>> THEN <<>>
    ELSE InsertAsc(SortAsc(SubSeq(scored, 1, Len(scored) - 1)), scored[Len(scored)])

\* the sort written as sorted(scored, key=...)[::-1]: equal scores come out
\* in reverse dataset order
SortReversedAscending(scored) == Reverse(SortAsc(scored))

RECURSIVE SortByScoreDescending(_)
\* scored.sort(key=lambda item: item[0], reverse=True): list.sort is stable,
\* and with reverse=True elements with equal keys keep their original order
SortByScoreDescending(scored) ==
    IF scored = <<>> THEN <<>>
    ELSE InsertDesc(SortByScoreDescending(SubSeq(scored, 1, Len(scored) - 1)),
                    scored[Len(scored)])

\* the slice scored[:5]
TopK == 5

\* seq[:n]
Slice(seq, n) == SubSeq(seq, 1, Min(n, Len(seq)))

\* Query(..., min_length=1): FastAPI answers 422 before the handler runs
PassesMinLength(query) == Len(query) >= 1

\* the check dropped: no query counts as empty
QueryIsEmptyUnchecked(normalized_query) == FALSE

\* the check `if not normalized_query` of search and building_by_address
QueryIsEmpty(normalized_query) == normalized_query = <<>>

RECURSIVE Scored(_, _, _)
\* the loop of search from position i on: one <<score, entry>> per entry
Scored(search_index, i, normalized_query) ==
    IF i > Len(search_index) THEN <<>>
    ELSE <<<<ScoreMatch(normalized_query, search_index[i].normalized_address),
             search_index[i]>>>>
             \o Scored(search_index, i + 1, normalized_query)

\* search(query)
Search(query) ==
    /\ CanHandle
    /\ IF ~PassesMinLength(query)
       THEN /\ response' = [op |-> "search", query |-> query, status |-> 422]
            /\ scorerCalls' = {}
       ELSE LET normalized_query == Normalize(query)
            IN  IF QueryIsEmpty(normalized_query)
                THEN /\ response' = [op |-> "search", query |-> query, status |-> 400]
                     /\ scorerCalls' = {}
                ELSE LET search_index == DictGet(DATA_CACHE, "search_index", <<>>)
                         scored == Scored(search_index, 1, normalized_query)
                         top == Slice(SortByScoreDescending(scored), TopK)
                     IN  /\ response' =
                                [op |-> "search", query |-> query, status |-> 200,
                                 body |-> [r \in 1 .. Len(top) |->
                                              ExtractMatchPayload(top[r][2], top[r][1])]]
                         /\ scorerCalls' =
                                {<<normalized_query, search_index[i].normalized_address>> :
                                     i \in 1 .. Len(search_index)}
    /\ loop' = "send"
    /\ UNCHANGED <<dataFile, phase, DATA_CACHE, bridgeCalls, pureVars>>

\* the comparison written without regard to case
IdEqualsIgnoringCase(stored, feature_id) ==
    stored # None /\ Lower(stored[1]) = Lower(feature_id)

\* `props.get("id") == feature_id`: equality of Python strings; a missing
\* id is None and equals no string
IdEquals(stored, feature_id) == stored = Some(feature_id)

RECURSIVE FirstWithId(_, _, _)
\* the loop of _find_feature_by_id from position i on
FirstWithId(features, i, feature_id) ==
    IF i > Len(features) THEN None
    ELSE IF IdEquals(features[i].properties[1].id, feature_id) THEN Some(features[i])
    ELSE FirstWithId(features, i + 1, feature_id)

\* _find_feature_by_id(feature_id)
FindFeatureById(cache, feature_id) ==
    FirstWithId(DictGet(cache, "features", <<>>), 1, feature_id)

\* _build_building_response(feature, feature_id)
BuildBuildingResponse(feature, feature_id) ==
    IF feature = None THEN [found |-> FALSE, id |-> feature_id]
    ELSE LET props == feature[1].properties[1]
         IN  [found |-> TRUE, id |-> props.id, address |-> FormatAddress(props),
              height_m |-> props.height, vacancy_pct |-> props.Percentage_vacant,
              properties |-> props, geometry |-> feature[1].geometry]

\* get_building(id)
GetBuilding(id) ==
    /\ CanHandle
    /\ response' = [op |-> "building", id |-> id, status |-> 200,
                    body |-> BuildBuildingResponse(FindFeatureById(DATA_CACHE, id), id)]
    /\ scorerCalls' = {}
    /\ loop' = "send"
    /\ UNCHANGED <<dataFile, phase, DATA_CACHE, bridgeCalls, pureVars>>

\* the update written with >=: the last of the equal top scores wins
BetterOrEqual(score, best_score) == ~ScoreGt(best_score, score)

\* `if score > best_score`
Better(score, best_score) == ScoreGt(score, best_score)

RECURSIVE BestFrom(_, _, _, _)
\* the loop of building_by_address from position i on, with the running
\* best in best = [score, entry]
BestFrom(search_index, i, normalized_query, best) ==
    IF i > Len(search_index) THEN best
    ELSE LET entry == search_index[i]
             score == ScoreMatch(normalized_query, entry.normalized_address)
         IN  IF Better(score, best.score)
             THEN BestFrom(search_index, i + 1, normalized_query,
                           [score |-> score, entry |-> Some(entry)])
             ELSE BestFrom(search_index, i + 1, normalized_query, best)

\* building_by_address(query)
BuildingByAddress(query) ==
    /\ CanHandle
    /\ IF ~PassesMinLength(query)
       THEN /\ response' = [op |-> "building_by_address", query |-> query, status |-> 422]
            /\ scorerCalls' = {}
       ELSE LET normalized_query == Normalize(query)
            IN  IF QueryIsEmpty(normalized_query)
                THEN /\ response' = [op |-> "building_by_address", query |-> query,
                                     status |-> 400]
                     /\ scorerCalls' = {}
                ELSE LET search_index == DictGet(DATA_CACHE, "search_index", <<>>)
                         best == BestFrom(search_index, 1, normalized_query,
                                          [score |-> <<-1, 1>>, entry |-> None])
                         feature == IF best.entry # None
                                    THEN Some(best.entry[1].feature) ELSE None
                     IN  /\ response' =
                                [op |-> "building_by_address", query |-> query,
                                 status |-> 200,
                                 body |-> BuildBuildingResponse(feature, query)]
                         /\ scorerCalls' =
                                {<<normalized_query, search_index[i].normalized_address>> :
                                     i \in 1 .. Len(search_index)}
    /\ loop' = "send"
    /\ UNCHANGED <<dataFile, phase, DATA_CACHE, bridgeCalls, pureVars>>

\* ------------------------------------------------------- generate_model
\* urllib.request.urlopen(request, timeout=5) for one outcome at the bridge:
\* a refused or timed-out connection raises URLError; a timeout while waiting
\* for the response raises TimeoutError; a status outside 200..299 raises
\* HTTPError; otherwise the response is returned
Urlopen(outcome) ==
    CASE outcome.kind = "connect_failed" -> [raised |-> "URLError"]
      [] outcome.kind = "response_timeout" -> [raised |-> "TimeoutError"]
      [] outcome.kind = "http" /\ ~(200 <= outcome.status /\ outcome.status < 300) ->
             [raised |-> "HTTPError"]
      [] OTHER -> [raised |-> "no", status |-> outcome.status, body |-> outcome.body]

\* `except urllib.error.URLError`: HTTPError is a subclass of URLError
IsURLError(exception) == exception \in {"URLError", "HTTPError"}

\* generate_model(payload) up to the call of urlopen: the handler is a
\* coroutine without an await, so the blocking call holds the loop thread
GenerateModelCall ==
    /\ CanHandle
    /\ loop' = "urlopen"
    /\ bridgeCalls' = 1
    /\ scorerCalls' = {}
    /\ response' = NoResponse
    /\ UNCHANGED <<dataFile, phase, DATA_CACHE, pureVars>>

\* generate_model(payload) from the return of urlopen on
GenerateModelReturn(outcome) ==
    /\ phase = "serving"
    /\ loop = "urlopen"
    /\ LET got == Urlopen(outcome)
           status ==
               IF got.raised # "no"
               THEN IF IsURLError(got.raised) THEN 503 ELSE 500
               ELSE IF got.status >= 400 THEN 502
               ELSE IF got.body = "not_json" THEN 502
               ELSE IF got.body = "other_json" THEN 500
               ELSE 200
       IN  response' = [op |-> "generate_model", outcome |-> outcome, status |-> status]
    /\ loop' = "send"
    /\ UNCHANGED <<dataFile, phase, DATA_CACHE, bridgeCalls, scorerCalls, pureVars>>

\* the loop thread has written the response and takes the next request
SendResponse ==
    /\ loop = "send"
    /\ loop' = "idle"
    /\ response' = NoResponse
    /\ bridgeCalls' = 0
    /\ scorerCalls' = {}
    /\ UNCHANGED <<dataFile, phase, DATA_CACHE, pureVars>>

\* ------------------------------------------------------- the server
Init ==
    /\ dataFile \in DataFiles
    /\ phase = "starting"
    /\ DATA_CACHE = <<>>
    /\ loop = "idle"
    /\ bridgeCalls = 0
    /\ scorerCalls = {}
    /\ response = NoResponse
    /\ fn = "none"
    /\ arg1 = <<>>
    /\ arg2 = <<>>
    /\ out1 = <<>>
    /\ out2 = <<>>
    /\ pc = "idle"

QueryRequest ==
    \/ \E query \in Queries : Search(query)
    \/ \E id \in Ids : GetBuilding(id)
    \/ \E query \in Queries : BuildingByAddress(query)

Next ==
    \/ StartupEvent
    \/ HealthCheck
    \/ \E query \in Queries : Search(query)
    \/ \E id \in Ids : GetBuilding(id)
    \/ \E query \in Queries : BuildingByAddress(query)
    \/ GenerateModelCall
    \/ \E outcome \in UrlopenOutcomes : GenerateModelReturn(outcome)
    \/ SendResponse

Spec == Init /\ [][Next]_vars

\* ------------------------------------------------- the pure functions alone
\* the strings scored
ScoreChars == {"a", "b", "c"}
ScoreStrings == SeqsUpTo(ScoreChars, MaxLen)

\* the raw texts normalised
RawChars == {"a", "B", "7", " ", "-", "U+0009", "U+212A", "U+0130"}
RawTexts == SeqsUpTo(RawChars, MaxRaw)

InitPure ==
    /\ dataFile = None
    /\ phase = "off"
    /\ DATA_CACHE = <<>>
    /\ loop = "idle"
    /\ bridgeCalls = 0
    /\ scorerCalls = {}
    /\ response = NoResponse
    /\ \/ fn = "score" /\ arg1 \in ScoreStrings /\ arg2 \in ScoreStrings
       \/ fn = "normalize" /\ arg1 \in RawTexts /\ arg2 = <<>>
    /\ out1 = <<>>
    /\ out2 = <<>>
    /\ pc = "call"

\* out1 = _score_match(arg1, arg2)
CallScoreMatch ==
    /\ fn = "score" /\ pc = "call"
    /\ out1' = ScoreMatch(arg1, arg2)
    /\ pc' = "again"
    /\ UNCHANGED <<serverVars, fn, arg1, arg2, out2>>

\* out2 = _score_match(arg2, arg1)
CallScoreMatchSwapped ==
    /\ fn = "score" /\ pc = "again"
    /\ out2' = ScoreMatch(arg2, arg1)
    /\ pc' = "done"
    /\ UNCHANGED <<serverVars, fn, arg1, arg2, out1>>

\* out1 = _normalize(arg1)
CallNormalize ==
    /\ fn = "normalize" /\ pc = "call"
    /\ out1' = Normalize(arg1)
    /\ pc' = "again"
    /\ UNCHANGED <<serverVars, fn, arg1, arg2, out2>>

\* out2 = _normalize(out1)
CallNormalizeAgain ==
    /\ fn = "normalize" /\ pc = "again"
    /\ out2' = Normalize(out1)
    /\ pc' = "done"
    /\ UNCHANGED <<serverVars, fn, arg1, arg2, out1>>

NextPure ==
    \/ CallScoreMatch
    \/ CallScoreMatchSwapped
    \/ CallNormalize
    \/ CallNormalizeAgain

SpecPure == InitPure /\ [][NextPure]_vars

\* ================================================================ claims
\* what the claims read from the state
Index == DictGet(DATA_CACHE, "search_index", <<>>)
Features == DictGet(DATA_CACHE, "features", <<>>)

RECURSIVE ScoresFrom(_, _)
\* the scores of the index positions from i on against the normalized query
ScoresFrom(nq, i) ==
    IF i > Len(Index) THEN <<>>
    ELSE <<ScoreMatch(nq, Index[i].normalized_address)>> \o ScoresFrom(nq, i + 1)

\* the scores of all index positions against the normalized query nq
IndexScores(nq) == ScoresFrom(nq, 1)

\* position p precedes position q in the ranking with scores sc: higher
\* score first, equal scores in dataset order
Precedes(sc, p, q) == ScoreGt(sc[p], sc[q]) \/ (sc[p] = sc[q] /\ p < q)

\* the index position that r - 1 positions precede
PosOfRank(sc, r) ==
    CHOOSE p \in DOMAIN sc : Cardinality({q \in DOMAIN sc : Precedes(sc, q, p)}) = r - 1

\* C1: for a query whose normalized form is not empty, search answers with
\* min(5, index size) results, scores never increasing, and the r-th result
\* is the entry that exactly r - 1 entries precede in the order "higher
\* score first, equal scores in dataset order"; an empty index gives an
\* empty list and no error.
C1_SearchIsStableTopK ==
    (response.op = "search" /\ Normalize(response.query) # <<>>) =>
        /\ response.status = 200
        /\ Len(response.body) = Min(5, Len(Index))
        /\ \A r \in 1 .. Len(response.body) - 1 :
               ~ScoreGt(response.body[r + 1].score, response.body[r].score)
        /\ LET sc == IndexScores(Normalize(response.query))
           IN  \A r \in 1 .. Len(response.body) :
                   response.body[r] =
                       ExtractMatchPayload(Index[PosOfRank(sc, r)], sc[PosOfRank(sc, r)])

\* a search over more than five entries whose answer holds two different
\* records with the same score, the later one of the dataset behind, and
\* leaves an entry with that same score out
C1_Witness ==
    /\ response.op = "search"
    /\ response.status = 200
    /\ Len(Index) > 5
    /\ Len(response.body) = 5
    /\ \E r \in 1 .. 4 :
           /\ response.body[r].score = response.body[r + 1].score
           /\ response.body[r] # response.body[r + 1]
    /\ LET sc == IndexScores(Normalize(response.query))
       IN  \E p \in 1 .. Len(Index) :
               /\ sc[p] = response.body[5].score
               /\ \A r \in 1 .. 5 : PosOfRank(sc, r) # p

\* C2: a query whose normalized form is empty is answered by search and by
\* building_by_address with a client error (status 4xx), and no index entry
\* is scored for it; the scorer is never called with an empty query.
C2_EmptyQueryRejected ==
    /\ (response.op \in {"search", "building_by_address"}
            /\ Normalize(response.query) = <<>>) =>
           (response.status \in 400 .. 499 /\ scorerCalls = {})
    /\ \A call \in scorerCalls : call[1] # <<>>

\* a query of punctuation and blanks refused with 400 over a non-empty index
C2_Witness ==
    /\ response.op = "building_by_address"
    /\ response.query = <<"-", " ">>
    /\ response.status = 400
    /\ Len(Index) > 0

\* the index positions whose score against nq is the highest
TopPositions(nq) ==
    LET sc == IndexScores(nq)
    IN  {p \in DOMAIN sc : \A q \in DOMAIN sc : ~ScoreGt(sc[q], sc[p])}

\* the least element of a non-empty set of positions
Least(S) == CHOOSE p \in S : \A q \in S : p <= q

\* C3: for a query whose normalized form is not empty, building_by_address
\* answers not-found exactly when the index is empty, and otherwise with the
\* record of the lowest index position among those with the highest score.
C3_BestMatchIsFirstMaximum ==
    (response.op = "building_by_address" /\ Normalize(response.query) # <<>>) =>
        /\ response.status = 200
        /\ (response.body.found = FALSE) <=> (Len(Index) = 0)
        /\ Len(Index) = 0 => response.body = [found |-> FALSE, id |-> response.query]
        /\ Len(Index) > 0 =>
               response.body =
                   BuildBuildingResponse(
                       Some(Index[Least(TopPositions(Normalize(response.query)))].feature),
                       response.query)

\* a best match chosen among two different records that share the top score
C3_Witness ==
    /\ response.op = "building_by_address"
    /\ response.status = 200
    /\ response.body.found
    /\ \E p, q \in TopPositions(Normalize(response.query)) :
           p < q /\ Index[p].feature # Index[q].feature

\* the positions of the records whose identifier is the string id
PositionsWithId(id) ==
    {i \in 1 .. Len(Features) : Features[i].properties[1].id = Some(id)}

\* C4: GET /building answers with the first record in dataset order whose
\* identifier is exactly the requested string (also when several records
\* carry it), and when no record carries it with found = false and the
\* requested id and nothing else; never with an error.
C4_ExactLookupIsFirstEqualId ==
    response.op = "building" =>
        /\ response.status = 200
        /\ IF PositionsWithId(response.id) = {}
           THEN response.body = [found |-> FALSE, id |-> response.id]
           ELSE response.body =
                    BuildBuildingResponse(
                        Some(Features[Least(PositionsWithId(response.id))]), response.id)

\* a lookup of an id that two different records carry, behind a record whose
\* id differs from it only in case
C4_Witness ==
    /\ response.op = "building"
    /\ response.body.found
    /\ \E p, q \in PositionsWithId(response.id) : p < q /\ Features[p] # Features[q]
    /\ Least(PositionsWithId(response.id)) > 1
    /\ Features[1].properties[1].id # None
    /\ Lower(Features[1].properties[1].id[1]) = Lower(response.id)

\* C5: generate_model answers 503 when the connection to the bridge fails,
\* 502 when the bridge answers with a status >= 400 or with a body that is
\* not JSON, and sends exactly one request to the bridge.
C5_DelegateErrorKinds ==
    response.op = "generate_model" =>
        /\ response.outcome.kind = "connect_failed" => response.status = 503
        /\ (response.outcome.kind = "http" /\ response.outcome.status >= 400) =>
               response.status = 502
        /\ (response.outcome.kind = "http" /\ response.outcome.status < 400
                /\ response.outcome.body = "not_json") => response.status = 502
        /\ bridgeCalls = 1

\* C6 as stated: the score of (a, b) equals the score of (b, a).
C6_ScoreSymmetric ==
    (fn = "score" /\ pc = "done") => out1 = out2

\* C6 as amended: the two orders give the same score when the strings are
\* equal or one of them has at most one character, and for all strings one
\* is 0.0 exactly when the other is and one is 1.0 exactly when the other is.
C6_ScoreSymmetricAtTheEnds ==
    (fn = "score" /\ pc = "done") =>
        /\ (arg1 = arg2 \/ Len(arg1) <= 1 \/ Len(arg2) <= 1) => out1 = out2
        /\ (out1 = <<0, 1>>) <=> (out2 = <<0, 1>>)
        /\ (out1 = <<1, 1>>) <=> (out2 = <<1, 1>>)

\* a one-character string scored both ways against a longer string that
\* holds the character, with a score strictly between 0 and 1
C6_Witness ==
    /\ fn = "score" /\ pc = "done"
    /\ Len(arg1) = 1 /\ Len(arg2) >= 3
    /\ out1 = out2
    /\ out1 # <<0, 1>> /\ out1 # <<1, 1>>

\* C7: a string scored against itself gives 1.0, the empty string included.
C7_SelfSimilarity ==
    (fn = "score" /\ pc \in {"again", "done"} /\ arg1 = arg2) => out1 = <<1, 1>>

\* a string of three characters with a repeated character scored against
\* itself
C7_Witness ==
    /\ fn = "score" /\ pc = "done"
    /\ arg1 = arg2
    /\ Len(arg1) >= 3
    /\ arg1[1] = arg1[3]
    /\ out1 = <<1, 1>>

\* C8: while a generate_model request waits on the bridge, a search,
\* building or building_by_address request can be served.
C8_QueriesServedDuringDelegate ==
    (phase = "serving" /\ loop = "urlopen") => ENABLED QueryRequest

\* both of the record list and the index are in DATA_CACHE, one index entry
\* per record in dataset order, or neither is
CacheWhole(cache) ==
    /\ ("features" \in DOMAIN cache) <=> ("search_index" \in DOMAIN cache)
    /\ ("search_index" \in DOMAIN cache) =>
           /\ Len(cache["search_index"]) = Len(cache["features"])
           /\ \A i \in 1 .. Len(cache["features"]) :
                  cache["search_index"][i].feature = cache["features"][i]

\* C9: every step leaves the record list and the index both present or both
\* absent, also a startup whose index construction fails, and no step after
\* startup changes DATA_CACHE.
C9_IndexAtomicAndImmutable ==
    [][CacheWhole(DATA_CACHE') /\ (phase # "starting" => DATA_CACHE' = DATA_CACHE)]_vars

\* a normalized text: lower-case ASCII letters, digits and single interior
\* spaces
IsNormalized(text) ==
    /\ \A i \in 1 .. Len(text) : text[i] \in LowerAlnum \cup {" "}
    /\ text # <<>> => (text[1] # " " /\ text[Len(text)] # " ")
    /\ \A i \in 1 .. Len(text) - 1 : ~(text[i] = " " /\ text[i + 1] = " ")

\* C10: normalizing a normalized text changes nothing, and every normalized
\* text holds only lower-case ASCII letters, digits and single interior
\* spaces.
C10_NormalizeIdempotent ==
    /\ (fn = "normalize" /\ pc \in {"again", "done"}) => IsNormalized(out1)
    /\ (fn = "normalize" /\ pc = "done") => out2 = out1

\* a text that normalization changed into two words
C10_Witness ==
    /\ fn = "normalize" /\ pc = "done"
    /\ out1 # arg1
    /\ Len(out1) >= 3
    /\ \E i \in 1 .. Len(out1) : out1[i] = " "
    /\ out2 = out1

====
